---------------------------- MODULE Spec2Model ----------------------------
(***************************************************************************)
(* A model of the CHUNITHM song bot: the tiered song search (search_song)  *)
(* and the catalog loader (load_data / load_data_from_api) of              *)
(* src/main.py, with its on-disk cache songs.json and the process-wide     *)
(* VERSION_MAP.                                                            *)
(*                                                                         *)
(* Strings are tuples of one-character strings, so that lower(), strip(),  *)
(* the substring test and the similarity ratio are computed, not assumed.  *)
(* A song is a record whose fields may be absent, as a JSON object's are.  *)
(***************************************************************************)
EXTENDS Integers, Sequences, FiniteSets

VARIABLES
    songs,        \* self.songs: the in-memory song list
    VERSION_MAP,  \* ChunithmBot.VERSION_MAP: class-level dict, version -> title
    data_file,    \* the cache file songs.json: [kind, songs]
    pc,           \* per load_data coroutine: the await it is suspended at
    local,        \* per load_data coroutine: force_refresh, the local `songs`
    ret,          \* history: the search_song call made by the last step, if any
    reply,        \* history: the cmd_debug reply made by the last step, if any
    call,         \* history: the load_data call entered by the last step, if any
    done,         \* history: the load_data call ended by the last step, if any
    prev,         \* history: the load_data call that ended last in this process
    fetched,      \* history: the list the last successful fetch produced
    calls         \* history: load_data calls entered since the process started

vars == <<songs, VERSION_MAP, data_file, pc, local, ret, reply, call, done,
          prev, fetched, calls>>

(***************************************************************************)
(* Bounds of the model.                                                    *)
(***************************************************************************)
MaxSongs == 3      \* longest song list given to search_song / sent by the API

(***************************************************************************)
(* Program constants.                                                      *)
(***************************************************************************)
ID_LIMIT == 8000            \* songs with id >= 8000 are skipped by the search
DEFAULT_ID == 9999          \* song.get('id', 9999)
DEFAULT_THRESHOLD == 60     \* search_song(keyword, threshold=60)
FUZZY_CAP == 89             \* min(raw_score, 89)
DEBUG_SCAN == 50            \* self.songs[:50]
DEBUG_THRESHOLD == 60       \* if score >= 60
DEBUG_TOP == 10             \* debug_results[:10]

(***************************************************************************)
(* Characters and strings.                                                 *)
(***************************************************************************)
\* ord(c) for the characters of the model's alphabet
Ord(c) ==
    CASE c = " " -> 32
      [] c = "1" -> 49
      [] c = "7" -> 55
      [] c = "8" -> 56
      [] c = "9" -> 57
      [] c = "0" -> 48
      [] c = "A" -> 65
      [] c = "B" -> 66
      [] c = "a" -> 97
      [] c = "b" -> 98
      [] c = "c" -> 99

IsSpace(c) == c = " "
IsAlnum(c) == c \in {"0", "1", "7", "8", "9", "A", "B", "a", "b", "c"}

\* str.lower(), one character
LowerChar(c) ==
    CASE c = "A" -> "a"
      [] c = "B" -> "b"
      [] OTHER -> c

\* str.lower()
Lower(s) == [i \in 1..Len(s) |-> LowerChar(s[i])]

RECURSIVE LStrip(_)
LStrip(s) == IF s # <<>> /\ IsSpace(Head(s)) THEN LStrip(Tail(s)) ELSE s

RECURSIVE RStrip(_)
RStrip(s) ==
    IF s # <<>> /\ IsSpace(s[Len(s)]) THEN RStrip(SubSeq(s, 1, Len(s) - 1)) ELSE s

\* str.strip()
Strip(s) == RStrip(LStrip(s))

\* `sub in s` for strings: sub occurs in s as a contiguous substring
IsSubstring(sub, s) ==
    \E k \in 0..(Len(s) - Len(sub)) : SubSeq(s, k + 1, k + Len(sub)) = sub

\* `x in lst` for a list
InList(x, lst) == \E i \in 1..Len(lst) : lst[i] = x

\* str(n) for a non-negative integer
RECURSIVE IntToStr(_)
IntToStr(n) ==
    LET digit == CASE n % 10 = 0 -> "0" [] n % 10 = 1 -> "1" [] n % 10 = 2 -> "2"
                   [] n % 10 = 3 -> "3" [] n % 10 = 4 -> "4" [] n % 10 = 5 -> "5"
                   [] n % 10 = 6 -> "6" [] n % 10 = 7 -> "7" [] n % 10 = 8 -> "8"
                   [] n % 10 = 9 -> "9"
    IN  IF n < 10 THEN <<digit>> ELSE Append(IntToStr(n \div 10), digit)

\* dict.get(key, default) on a JSON object
Get(obj, key, default) == IF key \in DOMAIN obj THEN obj[key] ELSE default

Max(a, b) == IF a >= b THEN a ELSE b
Min(a, b) == IF a <= b THEN a ELSE b

(***************************************************************************)
(* fuzz.token_sort_ratio(s1, s2) of thefuzz: both strings are processed    *)
(* (lowercased, every non-alphanumeric character turned into a space,      *)
(* stripped), split into tokens, the tokens sorted and joined by one       *)
(* space, and the two results compared by the normalized InDel similarity  *)
(* 2*LCS/(len1+len2), as a rounded integer percentage.                     *)
(***************************************************************************)
FullProcess(s) ==
    Strip([i \in 1..Len(s) |->
              IF IsAlnum(s[i]) THEN LowerChar(s[i]) ELSE " "])

\* str.split(): the maximal runs of non-space characters, in order
RECURSIVE SplitFrom(_, _, _)
SplitFrom(s, cur, acc) ==
    IF s = <<>>
    THEN IF cur = <<>> THEN acc ELSE Append(acc, cur)
    ELSE IF IsSpace(Head(s))
         THEN SplitFrom(Tail(s), <<>>, IF cur = <<>> THEN acc ELSE Append(acc, cur))
         ELSE SplitFrom(Tail(s), Append(cur, Head(s)), acc)

Split(s) == SplitFrom(s, <<>>, <<>>)

\* s < t for strings, by code points
RECURSIVE StrLess(_, _)
StrLess(s, t) ==
    IF t = <<>> THEN FALSE
    ELSE IF s = <<>> THEN TRUE
    ELSE IF Ord(Head(s)) # Ord(Head(t)) THEN Ord(Head(s)) < Ord(Head(t))
    ELSE StrLess(Tail(s), Tail(t))

\* sorted(tokens)
RECURSIVE InsertToken(_, _)
InsertToken(tok, sorted) ==
    IF sorted = <<>> THEN <<tok>>
    ELSE IF StrLess(tok, Head(sorted)) THEN <<tok>> \o sorted
    ELSE <<Head(sorted)>> \o InsertToken(tok, Tail(sorted))

RECURSIVE SortTokens(_)
SortTokens(toks) ==
    IF toks = <<>> THEN <<>>
    ELSE InsertToken(toks[Len(toks)], SortTokens(SubSeq(toks, 1, Len(toks) - 1)))

\* " ".join(tokens)
RECURSIVE Join(_)
Join(toks) ==
    IF toks = <<>> THEN <<>>
    ELSE IF Len(toks) = 1 THEN toks[1]
    ELSE toks[1] \o <<" ">> \o Join(Tail(toks))

\* length of a longest common subsequence
RECURSIVE LCS(_, _)
LCS(s, t) ==
    IF s = <<>> \/ t = <<>> THEN 0
    ELSE IF Head(s) = Head(t) THEN 1 + LCS(Tail(s), Tail(t))
    ELSE Max(LCS(Tail(s), t), LCS(s, Tail(t)))

\* int(round(100 * 2*m / total)), Python's round-half-to-even
RoundPercent(m, total) ==
    LET num == 200 * m
        q   == num \div total
        r2  == 2 * (num % total)
    IN  IF r2 < total THEN q
        ELSE IF r2 > total THEN q + 1
        ELSE IF q % 2 = 0 THEN q ELSE q + 1

Ratio(s, t) ==
    IF Len(s) + Len(t) = 0 THEN 100 ELSE RoundPercent(LCS(s, t), Len(s) + Len(t))

token_sort_ratio(s1, s2) ==
    Ratio(Join(SortTokens(Split(FullProcess(s1)))),
          Join(SortTokens(Split(FullProcess(s2)))))


(***************************************************************************)
(* search_song, src/main.py lines 102-176.                                 *)
(***************************************************************************)
\* The tier of the if/elif chain that decides a song's score (lines 129-158);
\* keyword is already normalized.
Tier(song, keyword) ==
    LET title   == Lower(Get(song, "title", <<>>))
        raw     == Get(song, "aliases", <<>>)
        aliases == [i \in 1..Len(raw) |-> Lower(raw[i])]
    IN  IF keyword = <<"c">> \o IntToStr(Get(song, "id", DEFAULT_ID)) THEN 0
        ELSE IF keyword = title THEN 1
        ELSE IF InList(keyword, aliases) THEN 2
        ELSE IF IsSubstring(keyword, title) THEN 3
        ELSE IF \E i \in 1..Len(aliases) : IsSubstring(keyword, aliases[i]) THEN 4
        ELSE 5

\* max(alias_scores) if alias_scores else 0
RECURSIVE MaxOf(_)
MaxOf(scores) ==
    IF scores = <<>> THEN 0
    ELSE IF Len(scores) = 1 THEN scores[1]
    ELSE Max(scores[1], MaxOf(Tail(scores)))

\* The fuzzy fallback of lines 150-158
FuzzyScore(song, keyword) ==
    LET title        == Lower(Get(song, "title", <<>>))
        raw          == Get(song, "aliases", <<>>)
        aliases      == [i \in 1..Len(raw) |-> Lower(raw[i])]
        title_score  == token_sort_ratio(keyword, title)
        alias_scores == [i \in 1..Len(aliases) |-> token_sort_ratio(keyword, aliases[i])]
        alias_score  == MaxOf(alias_scores)
        raw_score    == Max(title_score, alias_score)
    IN  Min(raw_score, FUZZY_CAP)

\* The score of lines 127-158
Score(song, keyword) ==
    LET t == Tier(song, keyword)
    IN  CASE t = 0 -> 100
          [] t = 1 -> 100
          [] t = 2 -> 95
          [] t = 3 -> 90
          [] t = 4 -> 85
          [] OTHER -> FuzzyScore(song, keyword)

\* Mutant of Skipped: the limit itself is let through
Skipped_Above(song) == Get(song, "id", DEFAULT_ID) > ID_LIMIT

\* Lines 121-122: the song is skipped
Skipped(song) == Get(song, "id", DEFAULT_ID) >= ID_LIMIT

\* Lines 160-162: the song is appended to scored_results
Passes(score, threshold) == score >= threshold

\* The loop of lines 119-162: the list of <<score, song>> pairs
RECURSIVE ScoredResults(_, _, _)
ScoredResults(lst, keyword, threshold) ==
    IF lst = <<>> THEN <<>>
    ELSE LET song  == Head(lst)
             score == Score(song, keyword)
             rest  == ScoredResults(Tail(lst), keyword, threshold)
         IN  IF Skipped(song) THEN rest
             ELSE IF Passes(score, threshold) THEN <<<<score, song>>>> \o rest
             ELSE rest

\* Mutant of InsertDesc: a pair goes in front of the pairs of equal score
RECURSIVE InsertDesc_Before(_, _)
InsertDesc_Before(pair, sorted) ==
    IF sorted = <<>> THEN <<pair>>
    ELSE IF Head(sorted)[1] > pair[1]
         THEN <<Head(sorted)>> \o InsertDesc_Before(pair, Tail(sorted))
         ELSE <<pair>> \o sorted

\* list.sort(key=score, reverse=True): stable, so a pair goes behind every
\* pair already placed whose score is not smaller.
RECURSIVE InsertDesc(_, _)
InsertDesc(pair, sorted) ==
    IF sorted = <<>> THEN <<pair>>
    ELSE IF Head(sorted)[1] >= pair[1]
         THEN <<Head(sorted)>> \o InsertDesc(pair, Tail(sorted))
         ELSE <<pair>> \o sorted

RECURSIVE SortDesc(_)
SortDesc(pairs) ==
    IF pairs = <<>> THEN <<>>
    ELSE InsertDesc(pairs[Len(pairs)], SortDesc(SubSeq(pairs, 1, Len(pairs) - 1)))

\* Mutant of TakeTop: only the first pair is returned, ties are dropped
TakeTop_First(sorted, max_score) ==
    IF sorted = <<>> THEN <<>> ELSE <<Head(sorted)[2]>>

\* Lines 168-174: the songs of the leading pairs, up to the first lower score
RECURSIVE TakeTop(_, _)
TakeTop(sorted, max_score) ==
    IF sorted = <<>> THEN <<>>
    ELSE IF Head(sorted)[1] < max_score THEN <<>>
    ELSE <<Head(sorted)[2]>> \o TakeTop(Tail(sorted), max_score)

\* Mutant of Normalize: the keyword is stripped but not lowercased
Normalize_Strip(keyword) == Strip(keyword)

\* Line 116
Normalize(keyword) == Strip(Lower(keyword))

search_song(lst, keyword, threshold) ==
    IF keyword = <<>> \/ lst = <<>> THEN <<>>
    ELSE LET scored_results == SortDesc(ScoredResults(lst, Normalize(keyword), threshold))
         IN  IF scored_results = <<>> THEN <<>>
             ELSE TakeTop(scored_results, scored_results[1][1])

(***************************************************************************)
(* The scoring of cmd_debug, src/main.py lines 291-327: the loop of        *)
(* search_song written out a second time, over the first 50 songs.         *)
(***************************************************************************)
\* Mutant of DebugScore: the fuzzy score is not capped
DebugScore_NoCap(song, keyword) ==
    LET title   == Lower(Get(song, "title", <<>>))
        raw     == Get(song, "aliases", <<>>)
        aliases == [i \in 1..Len(raw) |-> Lower(raw[i])]
    IN  IF keyword = <<"c">> \o IntToStr(Get(song, "id", DEFAULT_ID)) THEN 100
        ELSE IF keyword = title THEN 100
        ELSE IF InList(keyword, aliases) THEN 95
        ELSE IF IsSubstring(keyword, title) THEN 90
        ELSE IF \E i \in 1..Len(aliases) : IsSubstring(keyword, aliases[i]) THEN 85
        ELSE LET title_score  == token_sort_ratio(keyword, title)
                 alias_scores == [i \in 1..Len(aliases) |->
                                     token_sort_ratio(keyword, aliases[i])]
                 alias_score  == MaxOf(alias_scores)
             IN  Max(title_score, alias_score)

\* Lines 298-318: the score of one song; keyword is already normalized
DebugScore(song, keyword) ==
    LET title   == Lower(Get(song, "title", <<>>))
        raw     == Get(song, "aliases", <<>>)
        aliases == [i \in 1..Len(raw) |-> Lower(raw[i])]
    IN  IF keyword = <<"c">> \o IntToStr(Get(song, "id", DEFAULT_ID)) THEN 100
        ELSE IF keyword = title THEN 100
        ELSE IF InList(keyword, aliases) THEN 95
        ELSE IF IsSubstring(keyword, title) THEN 90
        ELSE IF \E i \in 1..Len(aliases) : IsSubstring(keyword, aliases[i]) THEN 85
        ELSE LET title_score  == token_sort_ratio(keyword, title)
                 alias_scores == [i \in 1..Len(aliases) |->
                                     token_sort_ratio(keyword, aliases[i])]
                 alias_score  == MaxOf(alias_scores)
                 raw_score    == Max(title_score, alias_score)
             IN  Min(raw_score, 89)

\* Line 294: self.songs[:50]
DebugScan(lst) == SubSeq(lst, 1, Min(Len(lst), DEBUG_SCAN))

\* The loop of lines 294-321: every song is scored, and the <<score, song>>
\* pairs of the songs that are not skipped and reach 60 are kept, in order
DebugResults(lst, keyword) ==
    LET scored == [i \in 1..Len(lst) |-> <<DebugScore(lst[i], keyword), lst[i]>>]
        Appended(pair) ==
            /\ ~(Get(pair[2], "id", DEFAULT_ID) >= 8000)
            /\ pair[1] >= DEBUG_THRESHOLD
    IN  SelectSeq(scored, Appended)

\* Line 323, debug_results.sort(key=score, reverse=True): pair i goes behind
\* the pairs of higher score and the earlier pairs of the same score
DebugSort(pairs) ==
    LET Before(i) ==
            {j \in 1..Len(pairs) :
                \/ pairs[j][1] > pairs[i][1]
                \/ pairs[j][1] = pairs[i][1] /\ j < i}
    IN  [k \in 1..Len(pairs) |->
            pairs[CHOOSE i \in 1..Len(pairs) : Cardinality(Before(i)) = k - 1]]

\* song.get('title') of a song without title, as the reply prints it
None == <<"N", "o", "n", "e">>

\* Lines 325-327: a line of the reply for each of the first 10 pairs: the
\* score and the song's title
DebugLines(debug_results) ==
    [i \in 1..Min(Len(debug_results), DEBUG_TOP) |->
        <<debug_results[i][1], Get(debug_results[i][2], "title", None)>>]

(***************************************************************************)
(* The inputs of the search: songs, keywords, thresholds.                  *)
(***************************************************************************)
Titles == {<<"a", "b">>, <<" ", "A", "b">>, <<"a", " ", "b">>}
AliasLists == {<<>>, <<<<"A", "B">>, <<"b", " ", "a", "b">>>>}

\* Song objects: every title and alias list below the id limit, two at the
\* limit, one without an id, one with nothing but an id
SongPool ==
    [id : {1}, title : Titles, aliases : AliasLists]
        \cup [id : {ID_LIMIT}, title : {<<"a", "b">>}, aliases : AliasLists]
        \cup {[title |-> <<"a", "b">>, aliases |-> <<>>], [id |-> 1]}

Keywords ==
    { <<>>, <<" ">>, <<"A", "B">>, <<" ", "A", "B">>,
      <<"c", "1">>, <<"b", " ", "a">>, <<"a">> }

Thresholds == {0, DEFAULT_THRESHOLD, 90}

RECURSIVE SeqsUpTo(_, _)
SeqsUpTo(S, n) ==
    IF n = 0 THEN {<<>>}
    ELSE LET shorter == SeqsUpTo(S, n - 1)
         IN  shorter \cup {Append(q, x) : q \in shorter, x \in S}

SongLists == SeqsUpTo(SongPool, MaxSongs)

\* Lists longer than cmd_debug scans: a song titled as the keyword "ab" at
\* the positions `hits`, songs that only resemble it everywhere else
LongLists ==
    { [i \in 1..(DEBUG_SCAN + 1) |->
          IF i \in hits THEN [id |-> 1, title |-> <<"a", "b">>, aliases |-> <<>>]
          ELSE [id |-> 7, title |-> <<"a", " ", "b">>, aliases |-> <<>>]] :
      hits \in {{DEBUG_SCAN + 1}, {DEBUG_TOP + 2, DEBUG_SCAN + 1}, {1, DEBUG_SCAN}} }


(***************************************************************************)
(* The catalog: load_data and load_data_from_api, src/main.py lines 39-100 *)
(* (ResourceManager.load_data / fetch_from_api of src/resource_manager.py  *)
(* are the same code).  A coroutine runs without interruption from one     *)
(* await to the next; the awaits are the two requests and the two bodies.  *)
(***************************************************************************)
Tasks == {1, 2}     \* coroutines that call load_data: initialize, cmd_refresh

\* VERSION_MAP = {0: '未知'}
InitialVersionMap == [v \in {0} |-> "unknown"]

\* The cache file: absent, a complete JSON document {"songs": [...]}, or
\* what is left when open(.., 'w') has truncated it and the dump stopped
\* after some songs: a prefix of the document, which json.load rejects.
NoFile == [kind |-> "missing", songs |-> <<>>]
JsonFile(lst) == [kind |-> "json", songs |-> lst]
TruncatedFile(lst, k) == [kind |-> "truncated", songs |-> SubSeq(lst, 1, k)]

\* data_file.exists() and json.load(f) succeeds (lines 45-48)
Readable(file) == file.kind = "json"

(***************************************************************************)
(* What the two endpoints may answer.                                      *)
(***************************************************************************)
Catalog ==
    << [id |-> 1, title |-> <<"a", "b">>],
       [id |-> 8000, title |-> <<"a", "b">>],
       [title |-> <<"a", " ", "b">>] >>

\* The songs of the catalog at the positions idx, in catalog order
RECURSIVE Pick(_, _)
Pick(idx, from) ==
    IF from > Len(Catalog) THEN <<>>
    ELSE IF from \in idx THEN <<Catalog[from]>> \o Pick(idx, from + 1)
    ELSE Pick(idx, from + 1)

SongsArrays ==
    {Pick(idx, 1) : idx \in {i \in SUBSET (1..Len(Catalog)) : Cardinality(i) <= MaxSongs}}

VersionsArrays == {<<>>, <<[version |-> 1, title |-> "v1"]>>}

\* The songs payload: an object with songs and versions, or one without versions
SongsPayloads ==
    [songs : SongsArrays, versions : VersionsArrays] \cup [songs : SongsArrays]

AliasPayloads ==
    { [aliases |-> <<>>],
      [aliases |-> <<[song_id |-> 1, aliases |-> << <<"A", "B">> >>]>>] }

\* Lines 73-74: every version entry is written into VERSION_MAP, in order
RECURSIVE MergeVersions(_, _)
MergeVersions(map, versions) ==
    IF versions = <<>> THEN map
    ELSE LET version == Head(versions)
             key     == Get(version, "version", 0)
             updated == [k \in DOMAIN map \cup {key} |->
                            IF k = key THEN Get(version, "title", "unknown") ELSE map[k]]
         IN  MergeVersions(updated, Tail(versions))

\* Lines 80-81: alias_map, a later item replacing an earlier one of the same song
RECURSIVE AliasMap(_)
AliasMap(items) ==
    IF items = <<>> THEN <<>>
    ELSE LET before == AliasMap(SubSeq(items, 1, Len(items) - 1))
             item   == items[Len(items)]
         IN  [k \in DOMAIN before \cup {item.song_id} |->
                 IF k = item.song_id THEN item.aliases ELSE before[k]]

\* song['aliases'] = value
WithAliases(song, value) ==
    [f \in DOMAIN song \cup {"aliases"} |-> IF f = "aliases" THEN value ELSE song[f]]

\* Lines 83-84: song['id'] raises KeyError for a song without id
MergeRaises(lst) == \E i \in 1..Len(lst) : "id" \notin DOMAIN lst[i]

\* Lines 83-84
MergeAliases(lst, alias_map) ==
    [i \in 1..Len(lst) |-> WithAliases(lst[i], Get(alias_map, lst[i].id, <<>>))]

\* Mutant of EmptyAliases: the songs are left as they were received
EmptyAliases_None(lst) == lst

\* Lines 87-88
EmptyAliases(lst) == [i \in 1..Len(lst) |-> WithAliases(lst[i], <<>>)]

(***************************************************************************)
(* History records.                                                        *)
(***************************************************************************)
NoCall == [called |-> FALSE]
Idle == [force_refresh |-> FALSE, songs |-> <<>>]
Failures ==
    { "songs_request", "songs_status", "songs_body", "versions",
      "alias_request", "alias_body", "alias_merge", "write_open", "write_dump" }

\* The failures of the two requests themselves
RequestFailures == {"songs_request", "songs_status", "alias_request"}

\* The history of a load_data call of coroutine t that ends with `outcome`:
\* done.at is the await the call ended at; prev.valid says that the cache
\* file is the one a successful fetch of this process wrote
Ended(t, force_refresh, outcome) ==
    /\ done' = [called |-> TRUE, task |-> t, outcome |-> outcome,
                force_refresh |-> force_refresh,
                first |-> (IF pc[t] = "idle" THEN calls = 0 ELSE calls = 1),
                file_before |-> data_file, received |-> local[t].songs,
                at |-> pc[t]]
    /\ prev' = [called |-> TRUE, force_refresh |-> force_refresh,
                wrote |-> (outcome \in {"ok", "write_dump"}),
                request_failed |-> (outcome \in RequestFailures),
                valid |-> \/ outcome = "ok"
                          \/ prev.called /\ prev.valid /\ outcome # "write_dump"]

\* load_data_from_api returns to load_data, which returns
Return(t, outcome) ==
    /\ Ended(t, local[t].force_refresh, outcome)
    /\ pc' = [pc EXCEPT ![t] = "idle"]
    /\ local' = [local EXCEPT ![t] = Idle]
    /\ ret' = NoCall /\ reply' = NoCall
    /\ call' = NoCall
    /\ UNCHANGED calls

\* The coroutine goes on to its next await
Goto(t, label) ==
    /\ pc' = [pc EXCEPT ![t] = label]
    /\ ret' = NoCall /\ reply' = NoCall
    /\ call' = NoCall
    /\ done' = NoCall
    /\ UNCHANGED <<songs, data_file, prev, fetched, calls>>

\* Mutant of Fail: the exception is not caught; it ends the coroutine and
\* self.songs stays as it was
Fail_Propagate(t, outcome) ==
    /\ Ended(t, local[t].force_refresh, outcome)
    /\ pc' = [pc EXCEPT ![t] = "raised"]
    /\ local' = [local EXCEPT ![t] = Idle]
    /\ ret' = NoCall /\ reply' = NoCall
    /\ call' = NoCall
    /\ UNCHANGED <<songs, data_file, fetched, calls>>

\* Lines 98-100: the exception is logged and self.songs emptied
Fail(t, outcome) ==
    /\ songs' = <<>>
    /\ Return(t, outcome)
    /\ UNCHANGED <<data_file, fetched>>

Init ==
    /\ songs = <<>>
    /\ VERSION_MAP = InitialVersionMap
    /\ data_file = NoFile
    /\ pc = [t \in Tasks |-> "idle"]
    /\ local = [t \in Tasks |-> Idle]
    /\ ret = NoCall
    /\ reply = NoCall
    /\ call = NoCall
    /\ done = NoCall
    /\ prev = NoCall
    /\ fetched = NoCall
    /\ calls = 0

(***************************************************************************)
(* load_data(force_refresh), lines 39-55, up to its first await.           *)
(***************************************************************************)
\* Mutant of MustFetch: only an empty VERSION_MAP forces the fetch
MustFetch_Empty(force_refresh) == force_refresh \/ Cardinality(DOMAIN VERSION_MAP) < 1

\* Line 41
MustFetch(force_refresh) == force_refresh \/ Cardinality(DOMAIN VERSION_MAP) <= 1

load_data(t, force_refresh) ==
    /\ pc[t] = "idle"
    /\ call' = [called |-> TRUE, task |-> t, force_refresh |-> force_refresh,
                songs_before |-> songs, prev |-> prev]
    /\ ret' = NoCall /\ reply' = NoCall
    /\ calls' = Min(calls + 1, 2)
    /\ IF ~MustFetch(force_refresh) /\ Readable(data_file)
       THEN \* lines 45-51: the cache is read and the call returns
            /\ songs' = data_file.songs
            /\ Ended(t, force_refresh, "cache")
            /\ UNCHANGED <<pc, local>>
       ELSE \* lines 42, 55 and 65-67: the songs request is sent
            /\ pc' = [pc EXCEPT ![t] = "get_songs"]
            /\ local' = [local EXCEPT ![t] =
                            [force_refresh |-> force_refresh, songs |-> <<>>]]
            /\ done' = NoCall
            /\ UNCHANGED <<songs, prev>>
    /\ UNCHANGED <<VERSION_MAP, data_file, fetched>>

(***************************************************************************)
(* load_data_from_api, lines 57-100, one action per await.                 *)
(***************************************************************************)
\* Line 67: session.get(url_songs) returns, or raises
songs_response(t) ==
    /\ pc[t] = "get_songs"
    /\ \E answer \in {"raises", "not_200", "200"} :
          IF answer = "raises" THEN Fail(t, "songs_request")
          ELSE IF answer = "not_200" THEN Fail(t, "songs_status")   \* lines 68-69
          ELSE Goto(t, "json_songs") /\ UNCHANGED local
    /\ UNCHANGED VERSION_MAP

\* Mutant of songs_body: the received array is installed in self.songs at
\* once, before the aliases are attached
songs_body_Install(t) ==
    /\ pc[t] = "json_songs"
    /\ \/ Fail(t, "songs_body") /\ UNCHANGED VERSION_MAP
       \/ \E data \in SongsPayloads :
             IF "versions" \notin DOMAIN data
             THEN Fail(t, "versions") /\ UNCHANGED VERSION_MAP
             ELSE /\ VERSION_MAP' = MergeVersions(VERSION_MAP, data.versions)
                  /\ local' = [local EXCEPT ![t].songs = Get(data, "songs", <<>>)]
                  /\ songs' = Get(data, "songs", <<>>)
                  /\ pc' = [pc EXCEPT ![t] = "get_alias"]
                  /\ ret' = NoCall /\ reply' = NoCall
                  /\ call' = NoCall /\ done' = NoCall
                  /\ UNCHANGED <<data_file, prev, fetched, calls>>

\* Lines 70-77: resp.json() returns the payload, or raises; the versions are
\* merged into VERSION_MAP and the alias request is sent
songs_body(t) ==
    /\ pc[t] = "json_songs"
    /\ \/ Fail(t, "songs_body") /\ UNCHANGED VERSION_MAP
       \/ \E data \in SongsPayloads :
             IF "versions" \notin DOMAIN data
             THEN \* line 73: iterating None raises
                  Fail(t, "versions") /\ UNCHANGED VERSION_MAP
             ELSE /\ VERSION_MAP' = MergeVersions(VERSION_MAP, data.versions)
                  /\ local' = [local EXCEPT ![t].songs = Get(data, "songs", <<>>)]
                  /\ Goto(t, "get_alias")

\* Mutant of Store: a failed write leaves the new list in self.songs
Store_Keep(t, merged) ==
    \E written \in {"ok", "open_raises", "dump_raises"} :
        IF written = "ok"
        THEN /\ songs' = merged
             /\ data_file' = JsonFile(merged)
             /\ fetched' = [called |-> TRUE, songs |-> merged]
             /\ Return(t, "ok")
        ELSE IF written = "open_raises"
        THEN /\ songs' = merged
             /\ Return(t, "write_open")
             /\ UNCHANGED <<data_file, fetched>>
        ELSE \E k \in 0..Len(merged) :
                /\ songs' = merged
                /\ data_file' = TruncatedFile(merged, k)
                /\ Return(t, "write_dump")
                /\ UNCHANGED fetched

\* Lines 92-96: self.songs = songs, then the cache file is opened for
\* writing (which truncates it) and the list dumped into it.  open() may
\* raise, leaving the file as it was; the dump may raise after k songs.
Store(t, merged) ==
    \E written \in {"ok", "open_raises", "dump_raises"} :
        IF written = "ok"
        THEN /\ songs' = merged
             /\ data_file' = JsonFile(merged)
             /\ fetched' = [called |-> TRUE, songs |-> merged]
             /\ Return(t, "ok")
        ELSE IF written = "open_raises"
        THEN Fail(t, "write_open")
        ELSE \E k \in 0..Len(merged) :
                /\ songs' = <<>>
                /\ data_file' = TruncatedFile(merged, k)
                /\ Return(t, "write_dump")
                /\ UNCHANGED fetched

\* Lines 77-78 and 86-96: session.get(url_alias) returns, or raises
alias_response(t) ==
    /\ pc[t] = "get_alias"
    /\ \/ Fail(t, "alias_request")
       \/ Store(t, EmptyAliases(local[t].songs))        \* status other than 200
       \/ Goto(t, "json_alias") /\ UNCHANGED local      \* status 200
    /\ UNCHANGED VERSION_MAP

\* Lines 79-85 and 92-96: resp_alias.json() returns the payload, or raises
alias_body(t) ==
    /\ pc[t] = "json_alias"
    /\ \/ Fail(t, "alias_body")
       \/ \E alias_data \in AliasPayloads :
             IF MergeRaises(local[t].songs)
             THEN Fail(t, "alias_merge")
             ELSE Store(t, MergeAliases(local[t].songs,
                                        AliasMap(Get(alias_data, "aliases", <<>>))))
    /\ UNCHANGED VERSION_MAP

(***************************************************************************)
(* The process is restarted: the cache file stays, memory does not.        *)
(***************************************************************************)
Restart ==
    /\ songs' = <<>>
    /\ VERSION_MAP' = InitialVersionMap
    /\ pc' = [t \in Tasks |-> "idle"]
    /\ local' = [t \in Tasks |-> Idle]
    /\ ret' = NoCall /\ reply' = NoCall /\ call' = NoCall /\ done' = NoCall /\ prev' = NoCall
    /\ calls' = 0
    /\ UNCHANGED <<data_file, fetched>>

(***************************************************************************)
(* A call of search_song on the in-memory list.                            *)
(***************************************************************************)
SearchSong(keyword, threshold) ==
    /\ ret' = [called |-> TRUE, keyword |-> keyword, threshold |-> threshold,
               result |-> search_song(songs, keyword, threshold)]
    /\ reply' = NoCall /\ call' = NoCall /\ done' = NoCall
    /\ UNCHANGED <<songs, VERSION_MAP, data_file, pc, local, prev, fetched, calls>>

\* Lines 182-196: the keyword of the message, stripped; nothing is searched
\* while the list is empty
cmd_search(keyword) ==
    /\ songs # <<>>
    /\ SearchSong(Strip(keyword), DEFAULT_THRESHOLD)

\* Lines 273-329: `text` is what follows the command word in the message;
\* split(maxsplit=1) leaves no keyword when it is blank, and nothing is
\* scored while the list is empty
cmd_debug(text) ==
    /\ Strip(text) # <<>>
    /\ songs # <<>>
    /\ \E keyword \in {Strip(Lower(Strip(text)))} :                 \* line 291
       \E unsorted \in {DebugResults(DebugScan(songs), keyword)} :   \* lines 294-321
       \E debug_results \in {DebugSort(unsorted)} :                  \* line 323
          reply' = [called |-> TRUE, keyword |-> Strip(text),
                    lines |-> DebugLines(debug_results)]
    /\ ret' = NoCall /\ call' = NoCall /\ done' = NoCall
    /\ UNCHANGED <<songs, VERSION_MAP, data_file, pc, local, prev, fetched, calls>>

(***************************************************************************)
(* The program, its load_data calls one after the other.                   *)
(***************************************************************************)
Quiet == \A t \in Tasks : pc[t] = "idle"

Next ==
    \/ \E force_refresh \in BOOLEAN : Quiet /\ load_data(1, force_refresh)
    \/ \E t \in Tasks : songs_response(t)
    \/ \E t \in Tasks : songs_body(t)
    \/ \E t \in Tasks : alias_response(t)
    \/ \E t \in Tasks : alias_body(t)
    \/ \E keyword \in {<<" ", "A", "B">>, <<"c", "1">>} : cmd_search(keyword)
    \/ \E text \in {<<"A", "B">>} : cmd_debug(text)
    \/ Restart

Spec == Init /\ [][Next]_vars

(***************************************************************************)
(* The program with overlapping loads: nothing in the code keeps the       *)
(* startup task (line 29) and an s_refresh command (line 267), or two      *)
(* s_refresh commands, from being suspended in load_data_from_api at the   *)
(* same time.  Each coroutine calls load_data once.                        *)
(***************************************************************************)
NextConc ==
    \/ \E t \in Tasks, force_refresh \in BOOLEAN :
          calls < Cardinality(Tasks) /\ load_data(t, force_refresh)
    \/ \E t \in Tasks : songs_response(t)
    \/ \E t \in Tasks : songs_body(t)
    \/ \E t \in Tasks : alias_response(t)
    \/ \E t \in Tasks : alias_body(t)

SpecConc == Init /\ [][NextConc]_vars

(***************************************************************************)
(* search_song as a function of its inputs: one call, on any song list,    *)
(* with any keyword and any threshold.                                     *)
(***************************************************************************)
InitSearch ==
    /\ songs \in SongLists
    /\ VERSION_MAP = InitialVersionMap
    /\ data_file = NoFile
    /\ pc = [t \in Tasks |-> "idle"]
    /\ local = [t \in Tasks |-> Idle]
    /\ ret = NoCall
    /\ reply = NoCall
    /\ call = NoCall
    /\ done = NoCall
    /\ prev = NoCall
    /\ fetched = NoCall
    /\ calls = 0

NextSearch ==
    \E keyword \in Keywords, threshold \in Thresholds :
        ~ret.called /\ SearchSong(keyword, threshold)

SpecSearch == InitSearch /\ [][NextSearch]_vars

(***************************************************************************)
(* The scoring of cmd_debug as a function of its inputs: one command, on   *)
(* any song list, also one longer than the 50 songs it scans.              *)
(***************************************************************************)
InitDebug ==
    /\ songs \in SongLists \cup LongLists
    /\ VERSION_MAP = InitialVersionMap
    /\ data_file = NoFile
    /\ pc = [t \in Tasks |-> "idle"]
    /\ local = [t \in Tasks |-> Idle]
    /\ ret = NoCall
    /\ reply = NoCall
    /\ call = NoCall
    /\ done = NoCall
    /\ prev = NoCall
    /\ fetched = NoCall
    /\ calls = 0

NextDebug == \E text \in Keywords : ~reply.called /\ cmd_debug(text)

SpecDebug == InitDebug /\ [][NextDebug]_vars


(***************************************************************************)
(* Properties of search_song.                                              *)
(***************************************************************************)
Count(lst, x) == Cardinality({i \in 1..Len(lst) : lst[i] = x})

\* Song i of the list is not skipped and its score reaches the threshold
Eligible(lst, i, keyword, threshold) ==
    /\ Get(lst[i], "id", DEFAULT_ID) < ID_LIMIT
    /\ Score(lst[i], keyword) >= threshold

\* Song i is eligible and no eligible song scores higher
AtTop(lst, i, keyword, threshold) ==
    /\ Eligible(lst, i, keyword, threshold)
    /\ \A j \in 1..Len(lst) :
          Eligible(lst, j, keyword, threshold)
              => Score(lst[j], keyword) <= Score(lst[i], keyword)

\* The result holds each song as often as the list holds it at the top
AllAndOnlyTop(lst, keyword, threshold, result) ==
    \A s \in {lst[i] : i \in 1..Len(lst)} \cup {result[i] : i \in 1..Len(result)} :
        Count(result, s) =
            Cardinality({i \in 1..Len(lst) :
                            lst[i] = s /\ AtTop(lst, i, keyword, threshold)})

\* C1 as stated: for every song list, keyword and threshold, search_song
\* returns all and only the songs with id < 8000 whose score reaches the
\* threshold and equals the highest such score.
C1_AllAndOnlyTop_AnyKeyword ==
    ret.called =>
        AllAndOnlyTop(songs, Normalize(ret.keyword), ret.threshold, ret.result)

\* C1 amended: for every song list, every non-empty keyword and every
\* threshold, search_song returns all and only the songs with id < 8000
\* whose score reaches the threshold and equals the highest such score
\* (for the empty keyword it returns nothing, whatever the songs score).
C1_AllAndOnlyTop ==
    (ret.called /\ ret.keyword # <<>>) =>
        AllAndOnlyTop(songs, Normalize(ret.keyword), ret.threshold, ret.result)

\* C1 witness: a search that returned two tied songs and left out a song
\* that reached the threshold with a lower score.
C1_Witness ==
    /\ ret.called /\ ret.keyword # <<>>
    /\ Len(ret.result) = 2
    /\ \E i \in 1..Len(songs) :
          /\ Eligible(songs, i, Normalize(ret.keyword), ret.threshold)
          /\ ~AtTop(songs, i, Normalize(ret.keyword), ret.threshold)

\* C2 as stated: a song scored by the fuzzy tier never scores as much as
\* a song of the same list scored by an exact or substring tier, and is not
\* returned when such a song reaches the threshold.
C2_FuzzyBelowExact ==
    (ret.called /\ ret.keyword # <<>>) =>
        \A i, j \in 1..Len(songs) :
            ( /\ ~Skipped(songs[i]) /\ Tier(songs[i], Normalize(ret.keyword)) <= 4
              /\ ~Skipped(songs[j]) /\ Tier(songs[j], Normalize(ret.keyword)) = 5 )
            => /\ Score(songs[j], Normalize(ret.keyword))
                      < Score(songs[i], Normalize(ret.keyword))
               /\ Score(songs[i], Normalize(ret.keyword)) >= ret.threshold
                      => ~InList(songs[j], ret.result)

\* C4 as stated: a song whose title equals the keyword, ignoring case, is
\* in the result of search_song(keyword), scored 100.
C4_TitleMatch_AnySong ==
    (ret.called /\ ret.threshold = DEFAULT_THRESHOLD) =>
        \A i \in 1..Len(songs) :
            Lower(ret.keyword) = Lower(Get(songs[i], "title", <<>>))
                => /\ InList(songs[i], ret.result)
                   /\ Score(songs[i], Normalize(ret.keyword)) = 100

\* C4 amended: a song with id < 8000 whose title is not empty, has no
\* leading or trailing whitespace and equals the keyword, ignoring case,
\* is in the result of search_song(keyword), scored 100.
C4_TitleMatch ==
    (ret.called /\ ret.threshold = DEFAULT_THRESHOLD) =>
        \A i \in 1..Len(songs) :
            LET title == Get(songs[i], "title", <<>>)
            IN  ( /\ Lower(ret.keyword) = Lower(title)
                  /\ Get(songs[i], "id", DEFAULT_ID) < ID_LIMIT
                  /\ title # <<>> /\ Strip(title) = title )
                => /\ InList(songs[i], ret.result)
                   /\ Score(songs[i], Normalize(ret.keyword)) = 100

\* C16: the reply of cmd_debug lists, for the first 50 songs of the list,
\* the songs search_song does not skip whose search_song score for the
\* normalized keyword is at least 60, by descending score in list order,
\* cut after 10 lines and not at the first lower score; each line carries
\* the song's search_song score.
C16_DebugScoresAsSearch ==
    reply.called =>
        LET keyword  == Normalize(reply.keyword)
            scanned  == SubSeq(songs, 1, Min(Len(songs), DEBUG_SCAN))
            expected == SortDesc(ScoredResults(scanned, keyword, DEBUG_THRESHOLD))
        IN  /\ Len(reply.lines) = Min(Len(expected), DEBUG_TOP)
            /\ \A i \in 1..Len(reply.lines) :
                  /\ reply.lines[i][1] = Score(expected[i][2], keyword)
                  /\ reply.lines[i][2] = Get(expected[i][2], "title", None)

\* C16 witness: over a list of more than 50 songs the reply has 10 lines,
\* the first with a higher score than the last.
C16_Witness ==
    /\ reply.called
    /\ Len(songs) > DEBUG_SCAN
    /\ Len(reply.lines) = DEBUG_TOP
    /\ reply.lines[1][1] > reply.lines[DEBUG_TOP][1]

\* C17 as stated: search_song returns the empty list when the song list is
\* empty, when the keyword is empty, and when the keyword is empty once
\* lowercased and stripped.
C17_EmptyInputEmptyResult ==
    (ret.called /\ (songs = <<>> \/ Normalize(ret.keyword) = <<>>))
        => ret.result = <<>>

\* The songs at the top of the list, from position i on, in list order
RECURSIVE TopFrom(_, _, _, _)
TopFrom(lst, i, keyword, threshold) ==
    IF i > Len(lst) THEN <<>>
    ELSE (IF AtTop(lst, i, keyword, threshold) THEN <<lst[i]>> ELSE <<>>)
             \o TopFrom(lst, i + 1, keyword, threshold)

\* C18: a result of search_song that is not empty is the list's top songs
\* in the order the list has them: of two returned songs the one earlier in
\* self.songs comes first.
C18_StableOrder ==
    (ret.called /\ ret.result # <<>>) =>
        ret.result = TopFrom(songs, 1, Normalize(ret.keyword), ret.threshold)

\* C18 witness: two different songs were returned, in list order, from
\* behind a lower-scoring song that reached the threshold.
C18_Witness ==
    /\ ret.called /\ Len(ret.result) = 2 /\ Len(songs) = 3
    /\ ret.result[1] # ret.result[2]
    /\ ret.result = <<songs[2], songs[3]>>
    /\ Eligible(songs, 1, Normalize(ret.keyword), ret.threshold)

\* C4 witness: a keyword in capitals found the song titled in lower case,
\* next to a song that matched by a lower tier and was left out.
C4_Witness ==
    /\ ret.called /\ ret.threshold = DEFAULT_THRESHOLD
    /\ Len(songs) = 2 /\ Len(ret.result) = 1
    /\ \E i \in 1..Len(songs) :
          /\ ret.keyword # Get(songs[i], "title", <<>>)
          /\ Lower(ret.keyword) = Lower(Get(songs[i], "title", <<>>))
          /\ ret.result = <<songs[i]>>


(***************************************************************************)
(* Properties of the catalog.                                              *)
(***************************************************************************)
\* lst is the received song array with an aliases list attached to each song
Snapshot(lst, received) ==
    /\ Len(lst) = Len(received)
    /\ \A i \in 1..Len(received) :
          /\ "aliases" \in DOMAIN lst[i]
          /\ \A f \in DOMAIN received[i] \ {"aliases"} :
                f \in DOMAIN lst[i] /\ lst[i][f] = received[i][f]

\* C3: no song with id >= 8000, or without id, is in a search result; a
\* successful fetch keeps every received song, those included, in
\* self.songs and in the cache file, and a load from the cache installs the
\* file's list as it is.
C3_ExcludedOnlyBySearch ==
    /\ ret.called =>
          \A i \in 1..Len(ret.result) : Get(ret.result[i], "id", DEFAULT_ID) < ID_LIMIT
    /\ (done.called /\ done.outcome = "ok") =>
          /\ Snapshot(songs, done.received)
          /\ data_file = JsonFile(songs)
    /\ (done.called /\ done.outcome = "cache") =>
          /\ songs = done.file_before.songs
          /\ data_file = done.file_before

\* C3 witness: a search found a song in a list that also holds a song
\* without id, and that list is the content of the cache file.
C3_Witness ==
    /\ ret.called /\ ret.result # <<>>
    /\ \E i \in 1..Len(songs) : "id" \notin DOMAIN songs[i]
    /\ data_file = JsonFile(songs)

C6_RestartRoundTrip ==
    ( /\ done.called /\ done.first /\ ~done.force_refresh
      /\ done.file_before.kind = "json" )
    => songs = done.file_before.songs

\* C7 as stated: with a populated cache file in place (one the first call
\* did not write), a load_data(False) call that
\* follows a load_data(False) call sends no request and leaves self.songs
\* as the first call left it.
C7_CachedLoadIdempotent ==
    ( /\ call.called /\ ~call.force_refresh
      /\ prev.called /\ ~prev.force_refresh /\ ~prev.wrote
      /\ Readable(data_file) /\ data_file.songs # <<>> )
    => /\ pc[call.task] = "idle"
       /\ songs = call.songs_before

\* C8 as stated: a fetch that fails leaves self.songs empty and a cache
\* file written by an earlier successful fetch as it was.
C8_FailedFetchKeepsCache ==
    (done.called /\ done.outcome \in Failures) =>
        /\ songs = <<>>
        /\ done.file_before.kind = "json" => data_file = done.file_before

\* C9 as stated: when both requests succeed and the write of the cache
\* file fails, self.songs keeps the newly merged list.
C9_WriteFailureKeepsSongs ==
    (done.called /\ done.outcome \in {"write_open", "write_dump"}) =>
        Snapshot(songs, done.received)

\* C9 amended: when both requests succeed and the write of the cache file
\* fails, self.songs is emptied: the newly merged list is dropped, and the
\* file is the old one (open failed) or a truncated one (the dump failed).
C9_WriteFailureEmptiesSongs ==
    (done.called /\ done.outcome \in {"write_open", "write_dump"}) =>
        /\ songs = <<>>
        /\ \/ data_file = done.file_before
           \/ data_file.kind = "truncated"

\* C9 witness: a fetch that received songs failed in the dump, over a
\* cache file an earlier fetch had written.
C9_Witness ==
    /\ done.called /\ done.outcome = "write_dump"
    /\ done.received # <<>>
    /\ done.file_before.kind = "json"

\* C10 as stated: once a fetch has succeeded, the cache file holds exactly
\* the complete merged list of the most recent successful fetch.
C10_CacheIsLastFetch ==
    fetched.called => data_file = JsonFile(fetched.songs)

\* lst is the received song array, each song with the aliases list `empty`
\* attached and nothing else changed
AllAliasesEmpty(lst, received) ==
    /\ Snapshot(lst, received)
    /\ \A i \in 1..Len(lst) : lst[i].aliases = <<>>

\* The ids the alias endpoint has an entry for, and the lists it may send
AliasSongIds ==
    {p.aliases[k].song_id : p \in {q \in AliasPayloads : q.aliases # <<>>}, k \in {1}}
AliasValues ==
    {p.aliases[k].aliases : p \in {q \in AliasPayloads : q.aliases # <<>>}, k \in {1}}

\* Every song of lst has a list of aliases, empty when the alias endpoint
\* has no entry for the song
AllAliasesLists(lst) ==
    \A i \in 1..Len(lst) :
        /\ "aliases" \in DOMAIN lst[i]
        /\ lst[i].aliases \in AliasValues \cup {<<>>}
        /\ Get(lst[i], "id", DEFAULT_ID) \notin AliasSongIds => lst[i].aliases = <<>>

\* C11 as stated: when the songs request succeeded and the alias endpoint
\* answered with a status other than 200, self.songs and the cache file hold
\* every received song, each with aliases = []; when the alias endpoint
\* succeeded, every song of self.songs has an aliases list.
C11_AliasFailureKeepsSongs ==
    /\ ( /\ done.called /\ done.at = "get_alias"
          /\ done.outcome # "alias_request" )
       => /\ AllAliasesEmpty(songs, done.received)
          /\ data_file = JsonFile(songs)
    /\ (done.called /\ done.at = "json_alias") => AllAliasesLists(songs)

\* C11 amended: when the songs request succeeded, the alias endpoint
\* answered with a status other than 200 and the cache file was written,
\* self.songs and the cache file hold every received song, each with
\* aliases = []; if the write failed instead, self.songs is empty.  When the
\* alias endpoint succeeded and the fetch succeeded, self.songs and the
\* cache file hold every received song, each with an aliases list, empty
\* for a song without alias entry.
C11_AliasFailureEmptyAliases ==
    /\ (done.called /\ done.at = "get_alias" /\ done.outcome = "ok")
       => /\ AllAliasesEmpty(songs, done.received)
          /\ data_file = JsonFile(songs)
    /\ ( /\ done.called /\ done.at = "get_alias"
          /\ done.outcome \in {"write_open", "write_dump"} )
       => songs = <<>>
    /\ (done.called /\ done.at = "json_alias" /\ done.outcome = "ok")
       => /\ Snapshot(songs, done.received)
          /\ AllAliasesLists(songs)
          /\ data_file = JsonFile(songs)

\* C11 witness: the alias endpoint answered with a status other than 200
\* and the fetch installed two or more songs, each with aliases = [].
C11_Witness ==
    /\ done.called /\ done.at = "get_alias" /\ done.outcome = "ok"
    /\ Len(songs) >= 2
    /\ \A i \in 1..Len(songs) : songs[i].aliases = <<>>

\* C12: while a load_data call is suspended at one of its awaits, every step
\* that leaves it suspended (a search, a debug scoring, its own progress to
\* the next await) leaves self.songs as it was; the step that ends the call
\* installs the complete received list with an aliases list on every song,
\* or the empty list; and every song a search reads has its aliases list.
C12_SearchSeesWholeList ==
    [][ /\ \A t \in Tasks :
              pc[t] # "idle" =>
                  IF pc'[t] # "idle" THEN songs' = songs
                  ELSE \/ songs' = <<>>
                       \/ /\ done'.called /\ done'.outcome = "ok"
                          /\ Snapshot(songs', done'.received)
        /\ ret'.called =>
              /\ songs' = songs
              /\ \A i \in 1..Len(songs) : "aliases" \in DOMAIN songs[i]
      ]_vars

\* C12 witness: a search found a song in the installed list while a refresh
\* was suspended at the alias body, holding a different received list.
C12_Witness ==
    /\ ret.called /\ ret.result # <<>>
    /\ \E t \in Tasks :
          /\ pc[t] = "json_alias"
          /\ local[t].songs # <<>>
          /\ ~Snapshot(songs, local[t].songs)

\* C14 as stated: VERSION_MAP always has key 0; it has exactly one entry
\* before the first load_data call of the process and after a first call
\* whose fetch failed (no fetch has succeeded yet), and more than one entry
\* after every successful fetch.
C14_RegistrySentinel ==
    /\ 0 \in DOMAIN VERSION_MAP
    /\ calls = 0 => Cardinality(DOMAIN VERSION_MAP) = 1
    /\ (done.called /\ done.first /\ done.outcome \in Failures)
          => Cardinality(DOMAIN VERSION_MAP) = 1
    /\ (done.called /\ done.outcome = "ok")
          => Cardinality(DOMAIN VERSION_MAP) > 1

\* C15: every load_data call returns to its caller, whatever the requests,
\* the payloads, the cache read and the cache write do: the coroutine is
\* back at its start, no request pending, and after a failed fetch
\* self.songs is empty; an unparsable or missing cache file makes the call
\* fetch instead of failing.
C15_NoErrorEscapes ==
    /\ \A t \in Tasks :
          pc[t] \in {"idle", "get_songs", "json_songs", "get_alias", "json_alias"}
    /\ done.called =>
          /\ pc[done.task] = "idle"
          /\ done.outcome \in Failures \cup {"ok", "cache"}
          /\ done.outcome \in Failures => songs = <<>>
    /\ (call.called /\ ~Readable(data_file)) => pc[call.task] = "get_songs"

\* C15 witness: a songs payload without versions ended a fetch that ran
\* over a cache file an earlier fetch had written; the list is empty.
C15_Witness ==
    /\ done.called /\ done.outcome = "versions"
    /\ done.file_before.kind = "json" /\ done.file_before.songs # <<>>
    /\ songs = <<>>

\* C19 as stated: in one process, after a fetch has succeeded and written
\* the cache file and a later load_data(True) has failed at the songs or
\* the alias request, the next load_data(False) sends no request and leaves
\* the list of the last successful fetch in self.songs.
C19_RecoveryFromCache ==
    ( /\ call.called /\ ~call.force_refresh
      /\ call.prev.called /\ call.prev.force_refresh
      /\ call.prev.request_failed /\ call.prev.valid )
    => /\ pc[call.task] = "idle"
       /\ songs = fetched.songs

(***************************************************************************)
(* Properties of overlapping loads.                                        *)
(***************************************************************************)
\* The coroutines suspended inside load_data_from_api
InFlight == {t \in Tasks : pc[t] # "idle"}

\* C13 as stated: at most one load is in progress at any time; the startup
\* load and a load started by s_refresh never have their fetches in flight
\* together (so the load that started first cannot install its list over
\* the list of a load that started after it).
C13_SingleRefresh == Cardinality(InFlight) <= 1

\* C20: with load_data calls overlapping in any way, at every point
\* between two steps self.songs is empty or is the list the cache file holds.
C20_MemoryDiskAgree == songs = <<>> \/ data_file = JsonFile(songs)

\* C20 witness: a fetch has just installed and written its songs while the
\* other coroutine is suspended at its alias body with a different list.
C20_Witness ==
    /\ done.called /\ done.outcome = "ok"
    /\ songs # <<>> /\ data_file = JsonFile(songs)
    /\ \E t \in Tasks :
          /\ pc[t] = "json_alias"
          /\ local[t].songs # <<>>
          /\ ~Snapshot(songs, local[t].songs)

=============================================================================
